---- MODULE Spec2Model ----
(***************************************************************************)
(* Pool ledger and payout reconciliation of circle-fundr.                  *)
(*                                                                         *)
(* One PaymentEvent with its Payment rows (contributions), its Payout rows *)
(* and its poolBalance, the payment processor's sessions and transfers,    *)
(* and the HTTP / webhook handlers that read and write them.  A handler    *)
(* that awaits between a database read and a later write is modelled as    *)
(* one step per database operation, so that concurrent requests interleave *)
(* exactly where the code awaits.  Amounts are whole currency units.       *)
(***************************************************************************)
EXTENDS Integers, Sequences, FiniteSets, TLC

\* ------------------------------------------------------------------ bounds
MaxAmount == 2
MaxSessions == 2
MaxPayouts == 2
MaxArrivals == 7
MaxRaceArrivals == 5
MaxOverlaps == 1
MaxInflight == 2
MaxAccessArrivals == 4
MaxRosterArrivals == 4
MaxDeleteArrivals == 4
MaxQueryArrivals == 2
MaxLiveArrivals == 6

\* ---------------------------------------------------------------- entities
Users == {"u1", "u2"}
PaymentIds == {"p1", "p2"}
Slots == 1..MaxInflight
Amounts == 1..MaxAmount
AmountInputs == 0..MaxAmount
SessionIds == 1..MaxSessions
PayoutIds == 1..MaxPayouts

\* The user that created the event (paymentEvents.ts: organizerId: userId).
EventOrganizer == "u1"
\* membership.userId of the Payment row.
MemberOf(p) == IF p = "p1" THEN "u1" ELSE "u2"
\* workspaceMember.role === "ADMIN"
IsWorkspaceAdmin(u) == u = "u1"

\* ----------------------------------------------------------------- strings
\* Strings are sequences of one-character strings; null is the empty one.
Null == <<>>
Digit == <<"0", "1", "2", "3", "4", "5", "6", "7", "8", "9">>
RECURSIVE NumToStr(_)
\* String(n) / `${n}` of a non-negative whole number
NumToStr(n) ==
  IF n < 10 THEN <<Digit[n + 1]>>
  ELSE NumToStr(n \div 10) \o <<Digit[(n % 10) + 1]>>
DigitValue(c) == CHOOSE d \in 0..9 : Digit[d + 1] = c
IsDigit(c) == \E d \in 0..9 : Digit[d + 1] = c
RECURSIVE ParseDigits(_, _)
ParseDigits(s, acc) ==
  IF s = <<>> \/ ~IsDigit(Head(s)) THEN acc
  ELSE ParseDigits(Tail(s), acc * 10 + DigitValue(Head(s)))
\* parseFloat(s) on the digit strings the handlers produce
ParseFloat(s) == ParseDigits(s, 0)
StartsWith(s, pre) == Len(s) >= Len(pre) /\ SubSeq(s, 1, Len(pre)) = pre
ManualPrefix == <<"m", "a", "n", "u", "a", "l", "_">>
\* `manual_${amount}`
ManualIntentId(amount) == ManualPrefix \o NumToStr(amount)
\* s.replace("manual_", "") for an s that starts with the prefix
StripManual(s) == SubSeq(s, Len(ManualPrefix) + 1, Len(s))
\* the processor's opaque ids
SessionRef(sid) == <<"c", "s", "_">> \o NumToStr(sid)
TransferRef(pid) == <<"t", "r", "_">> \o NumToStr(pid)

Max(a, b) == IF a >= b THEN a ELSE b

VARIABLES
  poolBalance,    \* PaymentEvent.poolBalance
  payments,       \* Payment rows of the event, by id
  payouts,        \* Payout rows of the event (a set of records)
  payoutSeq,      \* number of Payout rows ever created (ids are never reused)
  sessions,       \* checkout sessions that exist at the processor
  transfers,      \* payout ids for which a transfer exists at the processor
  handlers,       \* the handler invocations in flight, by slot
  arrivals,       \* requests and notifications accepted for processing so far
  overlaps,       \* those of them that arrived while a handler was in flight
  overlapLimit,   \* how many such overlapping arrivals the run admits
  arrivalLimit,   \* how many arrivals the run admits
  organizer,      \* User row of the organizer: its Connect account fields
  rejected,       \* the response to the latest arrival, when it was answered at once
  memberships,    \* Membership rows of the circle (by user)
  eventCreated,   \* whether the PaymentEvent row exists
  deleted,        \* what has been deleted: "none", "circle" or "workspace"
  payoutFk,       \* referential action of Payout.paymentEventId on delete
  organizerId,    \* PaymentEvent.organizerId of the event last created
  settled,        \* history: sessions whose completion has been committed
  refundCount,    \* history: transfer.failed refunds committed, by payout id
  manualDelta     \* history: amount of the latest manual settlement not undone

vars == <<poolBalance, payments, payouts, payoutSeq, sessions, transfers,
          handlers, arrivals, overlaps, overlapLimit, arrivalLimit,
          organizer, rejected, memberships, eventCreated, deleted, payoutFk,
          organizerId, settled, refundCount, manualDelta>>

circle == <<memberships, eventCreated, deleted, payoutFk, organizerId>>
db == <<poolBalance, payments, payouts, payoutSeq, organizer, circle>>
stripeSide == <<sessions, transfers>>
history == <<settled, refundCount, manualDelta>>

Idle == [kind |-> "idle"]
\* no request has been rejected by the latest arrival
NoRejection == [op |-> "none"]
\* the organizer's connected account id at the processor
AccountRef == <<"a", "c", "c", "t", "_", "1">>
\* organizer.stripeAccountId set and organizer.stripePayoutsEnabled
HasPayoutDestination(u) ==
  u = EventOrganizer /\ organizer.stripeAccountId # Null /\ organizer.stripePayoutsEnabled

\* State after POST /payment-events: poolBalance 0 and one PENDING Payment
\* row per member of the circle.
Created ==
  /\ poolBalance = 0
  /\ payments = [p \in PaymentIds |->
       [membershipId |-> MemberOf(p), amountPaid |-> 0, status |-> "PENDING",
        method |-> "MANUAL", stripeIntentId |-> Null]]
  /\ memberships = Users
  /\ eventCreated = TRUE
  /\ organizerId = EventOrganizer
  /\ deleted = "none"
  /\ payouts = {}
  /\ payoutSeq = 0
  /\ sessions = {}
  /\ transfers = {}
  /\ handlers = [h \in Slots |-> Idle]
  /\ arrivals = 0
  /\ overlaps = 0
  /\ settled = {}
  /\ refundCount = [i \in PayoutIds |-> 0]
  /\ manualDelta = [p \in PaymentIds |-> 0]
  /\ rejected = NoRejection

\* The organizer has completed Connect onboarding.
Onboarded == organizer = [stripeAccountId |-> AccountRef, stripePayoutsEnabled |-> TRUE]

\* The foreign keys of the schema refuse the deletion of a row that is
\* referenced (ON DELETE RESTRICT, the ORM's default).
Restricting == payoutFk = "RESTRICT"

\* Handlers may run concurrently, interleaving at their awaits.
Init ==
  /\ Created /\ Onboarded /\ Restricting
  /\ overlapLimit = MaxOverlaps /\ arrivalLimit = MaxArrivals
\* Handlers run one after the other: nothing arrives while one is in flight.
InitSeq ==
  /\ Created /\ Onboarded /\ Restricting
  /\ overlapLimit = 0 /\ arrivalLimit = MaxArrivals

PayoutById(i) == CHOOSE r \in payouts : r.id = i
PayoutExists(i) == \E r \in payouts : r.id = i
SessionById(s) == CHOOSE r \in sessions : r.id = s
\* prisma.payout.update({ where: { id }, data })
UpdatePayout(i, data) ==
  {IF r.id = i THEN [f \in DOMAIN r |-> IF f \in DOMAIN data THEN data[f] ELSE r[f]]
   ELSE r : r \in payouts}
\* prisma.payment.update({ where: { id }, data })
UpdatePayment(p, data) ==
  [payments EXCEPT ![p] =
     [f \in DOMAIN @ |-> IF f \in DOMAIN data THEN data[f] ELSE @[f]]]

Busy == {h \in Slots : handlers[h].kind # "idle"}
AllIdle == Busy = {}
\* a new invocation takes the lowest free slot
SlotFree == Busy # Slots
FirstFree == CHOOSE h \in Slots \ Busy : \A g \in Slots \ Busy : h <= g
budget == <<arrivals, overlaps, overlapLimit, arrivalLimit>>
Min(a, b) == IF a <= b THEN a ELSE b
Finish(h) == handlers' = [handlers EXCEPT ![h] = Idle] /\ UNCHANGED <<budget, rejected>>
\* One more request or notification is accepted for processing.  A history
\* in which handlers overlap is explored up to MaxRaceArrivals arrivals, a
\* history without overlap up to MaxArrivals.
Admit ==
  /\ arrivals < (IF AllIdle /\ overlaps = 0 THEN arrivalLimit
                 ELSE Min(arrivalLimit, MaxRaceArrivals))
  /\ arrivals' = arrivals + 1
  /\ IF AllIdle THEN UNCHANGED overlaps
     ELSE overlaps < overlapLimit /\ overlaps' = overlaps + 1
  /\ UNCHANGED <<overlapLimit, arrivalLimit>>
\* the arrival is taken up by its handler
Accept == Admit /\ rejected' = NoRejection
\* an accepted request or notification starts being processed
Start(inv) == Accept /\ handlers' = [handlers EXCEPT ![FirstFree] = inv]
\* h moves on to its next database or processor call
Goto(h, pc) == handlers' = [handlers EXCEPT ![h].pc = pc] /\ UNCHANGED <<budget, rejected>>


\* ------------------------------------------------- POST .../request-payout
\* amount ?? event.poolBalance
RequestedAmount(hasAmount, amount) == IF hasAmount THEN amount ELSE poolBalance

\* RequestPayoutStatus without the checks of the organizer's Connect account.
RequestPayoutStatus_NoDestinationCheck(actor, requestedAmount) ==
  IF actor # EventOrganizer THEN 403
  ELSE IF requestedAmount <= 0 THEN 400
  ELSE IF requestedAmount > poolBalance THEN 400
  ELSE 0

\* Steps 1-3 of request-payout: ensureEventOrganizer, then the validation of
\* the amount against the balance read with the event.  0: the request goes
\* on; any other status is returned at once, before any write.
RequestPayoutStatus(actor, requestedAmount) ==
  IF actor # EventOrganizer THEN 403
  ELSE IF ~HasPayoutDestination(actor) THEN 403
  ELSE IF requestedAmount <= 0 THEN 400
  ELSE IF requestedAmount > poolBalance THEN 400
  ELSE 0

\* The response of a request-payout call rejected in steps 1-3; the
\* insufficient-balance response carries availableBalance: event.poolBalance.
RequestPayoutRejection(actor, requestedAmount) ==
  [op |-> "requestPayout",
   status |-> RequestPayoutStatus(actor, requestedAmount),
   availableBalance |->
     IF /\ actor = EventOrganizer /\ HasPayoutDestination(actor)
        /\ requestedAmount > 0 /\ requestedAmount > poolBalance
       THEN <<poolBalance>> ELSE Null]

\* A request-payout call that is rejected in steps 1-3 returns at once (a
\* call for an event that does not exist gets 404).
RequestPayout_Rejected(actor, hasAmount, amount) ==
  /\ eventCreated
  /\ RequestPayoutStatus(actor, RequestedAmount(hasAmount, amount)) # 0
  /\ Admit
  /\ rejected' = RequestPayoutRejection(actor, RequestedAmount(hasAmount, amount))
  /\ UNCHANGED <<db, stripeSide, handlers, history>>

\* request-payout invocations that may still create a Payout row
NotYetCreated ==
  {g \in Slots : handlers[g].kind = "requestPayout" /\ handlers[g].pc \in {"checkPending", "tx"}}

RequestPayout_Begin(actor, hasAmount, amount) ==
  /\ SlotFree
  /\ eventCreated
  /\ payoutSeq + Cardinality(NotYetCreated) < MaxPayouts
  /\ LET requestedAmount == RequestedAmount(hasAmount, amount)
     IN /\ RequestPayoutStatus(actor, requestedAmount) = 0
        /\ Start([kind |-> "requestPayout", pc |-> "checkPending",
                     actor |-> actor, hasAmount |-> hasAmount,
                     requestedAmount |-> requestedAmount,
                     destination |-> organizer.stripeAccountId,
                     seenBalance |-> poolBalance, payoutId |-> 0])
  /\ UNCHANGED <<db, stripeSide, history>>

\* Step 4: prisma.payout.findFirst with status in pending, in_transit.
PendingPayoutExists == \E r \in payouts : r.status \in {"pending", "in_transit"}

\* RequestPayout_CheckPending going on to the transaction whatever it found.
RequestPayout_CheckPending_Ignored(h) ==
  /\ handlers[h].kind = "requestPayout" /\ handlers[h].pc = "checkPending"
  /\ Goto(h, "tx")
  /\ UNCHANGED <<db, stripeSide, history>>

RequestPayout_CheckPending(h) ==
  /\ handlers[h].kind = "requestPayout" /\ handlers[h].pc = "checkPending"
  /\ IF PendingPayoutExists THEN Finish(h) ELSE Goto(h, "tx")
  /\ UNCHANGED <<db, stripeSide, history>>

\* RequestPayout_Tx writing the balance computed from the balance read in
\* step 2 instead of decrementing the stored one.
RequestPayout_Tx_AbsoluteWrite(h) ==
  /\ handlers[h].kind = "requestPayout" /\ handlers[h].pc = "tx"
  /\ LET id == payoutSeq + 1
         amt == handlers[h].requestedAmount
     IN /\ payouts' = payouts \cup
             {[id |-> id, organizerId |-> handlers[h].actor, amount |-> amt,
               status |-> "pending", stripeTransferId |-> Null,
               failureReason |-> ""]}
        /\ payoutSeq' = id
        /\ poolBalance' = handlers[h].seenBalance - amt
        /\ handlers' = [handlers EXCEPT ![h].pc = "transfer", ![h].payoutId = id]
  /\ UNCHANGED <<payments, stripeSide, budget, history, rejected, organizer, circle>>

\* Step 5: the transaction creating the Payout row and decrementing
\* poolBalance by the amount decided in step 2.
RequestPayout_Tx(h) ==
  /\ handlers[h].kind = "requestPayout" /\ handlers[h].pc = "tx"
  /\ LET id == payoutSeq + 1
         amt == handlers[h].requestedAmount
     IN /\ payouts' = payouts \cup
             {[id |-> id, organizerId |-> handlers[h].actor, amount |-> amt,
               status |-> "pending", stripeTransferId |-> Null,
               failureReason |-> ""]}
        /\ payoutSeq' = id
        /\ poolBalance' = poolBalance - amt
        /\ handlers' = [handlers EXCEPT ![h].pc = "transfer", ![h].payoutId = id]
  /\ UNCHANGED <<payments, stripeSide, budget, history, rejected, organizer, circle>>

\* RequestPayout_Transfer tagging the transfer with the id of the latest
\* Payout row instead of the id of the row this request created.
RequestPayout_Transfer_LatestId(h, ok) ==
  /\ handlers[h].kind = "requestPayout" /\ handlers[h].pc = "transfer"
  /\ IF ok
       THEN /\ transfers' = transfers \cup {payoutSeq}
            /\ Goto(h, "update")
       ELSE /\ Goto(h, "rollback")
            /\ UNCHANGED transfers
  /\ UNCHANGED <<db, sessions, history>>

\* Step 6: stripe.transfers.create either creates the transfer or throws.
RequestPayout_Transfer(h, ok) ==
  /\ handlers[h].kind = "requestPayout" /\ handlers[h].pc = "transfer"
  /\ IF ok
       THEN /\ transfers' = transfers \cup {handlers[h].payoutId}
            /\ Goto(h, "update")
       ELSE /\ Goto(h, "rollback")
            /\ UNCHANGED transfers
  /\ UNCHANGED <<db, sessions, history>>

\* payout.update storing the transfer id, then 201; when the call throws (the
\* row is missing, or the database call fails: ~ok) control passes to the
\* catch block.
RequestPayout_Update(h, ok) ==
  /\ handlers[h].kind = "requestPayout" /\ handlers[h].pc = "update"
  /\ LET id == handlers[h].payoutId
     IN IF PayoutExists(id) /\ ok
          THEN /\ payouts' = UpdatePayout(id, [stripeTransferId |-> TransferRef(id)])
               /\ Finish(h)
          ELSE /\ Goto(h, "rollback")
               /\ UNCHANGED payouts
  /\ UNCHANGED <<poolBalance, payments, payoutSeq, stripeSide, history, organizer, circle>>

\* the status of the response after the rollback
RollbackStatus == 500

\* RequestPayout_Rollback with the increment of poolBalance left out.
RequestPayout_Rollback_NoCredit(h) ==
  /\ handlers[h].kind = "requestPayout" /\ handlers[h].pc = "rollback"
  /\ payouts' = {r \in payouts : r.id # handlers[h].payoutId}
  /\ Finish(h)
  /\ UNCHANGED <<poolBalance, payments, payoutSeq, stripeSide, history, organizer, circle>>

\* catch: the transaction deleting the Payout row and incrementing the
\* balance; delete of a missing row fails the transaction (outer catch, 500).
RequestPayout_Rollback(h) ==
  /\ handlers[h].kind = "requestPayout" /\ handlers[h].pc = "rollback"
  /\ LET id == handlers[h].payoutId
     IN IF PayoutExists(id)
          THEN /\ payouts' = {r \in payouts : r.id # id}
               /\ poolBalance' = poolBalance + handlers[h].requestedAmount
          ELSE UNCHANGED <<payouts, poolBalance>>
  /\ Finish(h)
  /\ UNCHANGED <<payments, payoutSeq, stripeSide, history, organizer, circle>>

\* ------------------------------------------------------ POST /webhooks/stripe
\* the response of the route when no handler goes on after it
WebhookResponse(status) == [op |-> "webhook", status |-> status]

\* checkout.session.completed: handleCheckoutSessionCompleted up to the
\* transaction.  The payment is looked up by metadata.paymentId, the amount
\* is parseFloat(metadata.chargeAmount), the new total is computed from the
\* row as read here.  An unpaid session or an unknown payment returns
\* before any write.
CheckoutCompleted_Begin(sid, paid) ==
  /\ SlotFree
  /\ \E r \in sessions : r.id = sid
  /\ LET session == SessionById(sid)
         paymentId == session.metadata.paymentId
         amountCharged == ParseFloat(session.metadata.chargeAmount)
     IN /\ paid
        /\ paymentId \in DOMAIN payments
        /\ Start([kind |-> "checkoutCompleted", pc |-> "tx", sid |-> sid,
                     paymentId |-> paymentId, amountCharged |-> amountCharged,
                     newTotalPaid |-> payments[paymentId].amountPaid + amountCharged])
  /\ UNCHANGED <<db, stripeSide, history>>

\* CheckoutCompleted_Tx with the increment of poolBalance left out.
CheckoutCompleted_Tx_NoCredit(h) ==
  /\ handlers[h].kind = "checkoutCompleted" /\ handlers[h].pc = "tx"
  /\ LET c == handlers[h]
     IN /\ payments' = UpdatePayment(c.paymentId,
             [amountPaid |-> c.newTotalPaid, status |-> "PAID", method |-> "STRIPE",
              stripeIntentId |-> SessionRef(c.sid)])
        /\ settled' = settled \cup {c.sid}
  /\ Finish(h)
  /\ UNCHANGED <<poolBalance, payouts, payoutSeq, stripeSide, refundCount, manualDelta,
                 organizer, circle>>

\* The transaction of handleCheckoutSessionCompleted: payment.update with the
\* absolute new total, paymentEvent.update incrementing poolBalance.
CheckoutCompleted_Tx(h) ==
  /\ handlers[h].kind = "checkoutCompleted" /\ handlers[h].pc = "tx"
  /\ LET c == handlers[h]
     IN /\ payments' = UpdatePayment(c.paymentId,
             [amountPaid |-> c.newTotalPaid, status |-> "PAID", method |-> "STRIPE",
              stripeIntentId |-> SessionRef(c.sid)])
        /\ poolBalance' = poolBalance + c.amountCharged
        /\ settled' = settled \cup {c.sid}
  /\ Finish(h)
  /\ UNCHANGED <<payouts, payoutSeq, stripeSide, refundCount, manualDelta, organizer, circle>>

\* transfer.created: handleTransferCreated, one payout.update by id that
\* throws (500) when the row is missing.
HandleTransferCreated(i) ==
  /\ i \in transfers
  /\ Admit
  /\ IF PayoutExists(i)
       THEN /\ payouts' = UpdatePayout(i,
                 [status |-> "in_transit", stripeTransferId |-> TransferRef(i)])
            /\ rejected' = NoRejection
       ELSE /\ UNCHANGED payouts
            /\ rejected' = WebhookResponse(500)
  /\ UNCHANGED <<poolBalance, payments, payoutSeq, stripeSide, handlers, history, organizer, circle>>

\* account.updated: handleAccountUpdated up to the update; the user is looked
\* up by stripeAccountId, an unknown account returns before any write.
AccountUpdated_Begin(payoutsEnabled) ==
  /\ SlotFree
  /\ organizer.stripeAccountId = AccountRef
  /\ Start([kind |-> "accountUpdated", pc |-> "write", payoutsEnabled |-> payoutsEnabled])
  /\ UNCHANGED <<db, stripeSide, history>>

\* user.update of handleAccountUpdated.
AccountUpdated_Write(h) ==
  /\ handlers[h].kind = "accountUpdated" /\ handlers[h].pc = "write"
  /\ organizer' = [organizer EXCEPT !.stripePayoutsEnabled = handlers[h].payoutsEnabled]
  /\ Finish(h)
  /\ UNCHANGED <<poolBalance, payments, payouts, payoutSeq, stripeSide, history, circle>>

\* account.application.deauthorized: handleAccountDeauthorized up to the update.
AccountDeauthorized_Begin ==
  /\ SlotFree
  /\ organizer.stripeAccountId = AccountRef
  /\ Start([kind |-> "accountDeauthorized", pc |-> "write"])
  /\ UNCHANGED <<db, stripeSide, history>>

\* user.update of handleAccountDeauthorized clearing the Connect fields.
AccountDeauthorized_Write(h) ==
  /\ handlers[h].kind = "accountDeauthorized" /\ handlers[h].pc = "write"
  /\ organizer' = [stripeAccountId |-> Null, stripePayoutsEnabled |-> FALSE]
  /\ Finish(h)
  /\ UNCHANGED <<poolBalance, payments, payouts, payoutSeq, stripeSide, history, circle>>

\* transfer.failed: handleTransferFailed up to the transaction; the payout
\* (and its amount) is read here, a missing payout returns before any write.
TransferFailed_Begin(i) ==
  /\ SlotFree
  /\ i \in transfers
  /\ PayoutExists(i)
  /\ Start([kind |-> "transferFailed", pc |-> "tx", payoutId |-> i,
               amount |-> PayoutById(i).amount])
  /\ UNCHANGED <<db, stripeSide, history>>

\* TransferFailed_Tx with the increment of poolBalance left out.
TransferFailed_Tx_NoRefund(h) ==
  /\ handlers[h].kind = "transferFailed" /\ handlers[h].pc = "tx"
  /\ LET i == handlers[h].payoutId
     IN IF PayoutExists(i)
          THEN /\ payouts' = UpdatePayout(i,
                    [status |-> "failed", failureReason |-> "Transfer failed"])
               /\ refundCount' = [refundCount EXCEPT ![i] = @ + 1]
          ELSE UNCHANGED <<payouts, refundCount>>
  /\ Finish(h)
  /\ UNCHANGED <<poolBalance, payments, payoutSeq, stripeSide, settled, manualDelta,
                 organizer, circle>>

\* The transaction of handleTransferFailed: payout.update to failed and
\* paymentEvent.update incrementing poolBalance by the amount read before.
TransferFailed_Tx(h) ==
  /\ handlers[h].kind = "transferFailed" /\ handlers[h].pc = "tx"
  /\ LET i == handlers[h].payoutId
     IN IF PayoutExists(i)
          THEN /\ payouts' = UpdatePayout(i,
                    [status |-> "failed", failureReason |-> "Transfer failed"])
               /\ poolBalance' = poolBalance + handlers[h].amount
               /\ refundCount' = [refundCount EXCEPT ![i] = @ + 1]
          ELSE UNCHANGED <<payouts, poolBalance, refundCount>>
  /\ Finish(h)
  /\ UNCHANGED <<payments, payoutSeq, stripeSide, settled, manualDelta, organizer, circle>>

\* The route itself: the stripe-signature header, stripe.webhooks.constructEvent
\* and the dispatch on event.type.
\* the value of the header that constructEvent accepts for the body received
ExpectedSignature == <<"t", "=", "1", ",", "v", "1", "=", "a">>
ForgedSignature == <<"t", "=", "1", ",", "v", "1", "=", "b">>
\* the header as received; Null: no stripe-signature header
SignatureHeaders == {Null, ForgedSignature, ExpectedSignature}

\* WebhookStatus accepting whatever signature the header carries.
WebhookStatus_Unverified(sig) == IF sig = Null THEN 400 ELSE 0

\* 400 for a missing header and for a signature constructEvent refuses; 0: the
\* event is dispatched.
WebhookStatus(sig) ==
  IF sig = Null THEN 400
  ELSE IF sig # ExpectedSignature THEN 400
  ELSE 0

EventTypes ==
  {"checkout.session.completed", "transfer.created", "transfer.failed",
   "account.updated", "account.application.deauthorized"}
\* The events delivered: id is the session or the payoutId of the transfer's
\* metadata, 0 when the object carries no such metadata; flag is the session's
\* payment_status = "paid" or the account's payouts_enabled.
WebhookEvents ==
  {ev \in [type : EventTypes, id : 0..MaxSessions, flag : BOOLEAN] :
     /\ ev.type \in {"transfer.created", "transfer.failed"} => ev.flag
     /\ ev.type = "account.updated" => ev.id = 0
     /\ ev.type = "account.application.deauthorized" => (ev.id = 0 /\ ev.flag)}

\* the handler returns before any write
Ignored(ev) ==
  \/ /\ ev.type = "checkout.session.completed"
     /\ \/ ev.id = 0
        \/ ~ev.flag
        \/ /\ \E r \in sessions : r.id = ev.id
           /\ SessionById(ev.id).metadata.paymentId \notin DOMAIN payments
  \/ ev.type = "transfer.created" /\ ev.id = 0
  \/ ev.type = "transfer.failed" /\ (ev.id = 0 \/ (ev.id \in transfers /\ ~PayoutExists(ev.id)))
  \/ /\ ev.type \in {"account.updated", "account.application.deauthorized"}
     /\ organizer.stripeAccountId # AccountRef

\* the handler of the event's type
Dispatch(ev) ==
  \/ /\ Ignored(ev)
     /\ Admit
     /\ rejected' = WebhookResponse(200)
     /\ UNCHANGED <<db, stripeSide, handlers, history>>
  \/ ev.type = "checkout.session.completed" /\ CheckoutCompleted_Begin(ev.id, ev.flag)
  \/ ev.type = "transfer.created" /\ HandleTransferCreated(ev.id)
  \/ ev.type = "transfer.failed" /\ TransferFailed_Begin(ev.id)
  \/ ev.type = "account.updated" /\ AccountUpdated_Begin(ev.flag)
  \/ ev.type = "account.application.deauthorized" /\ AccountDeauthorized_Begin

StripeWebhook(sig, ev) ==
  IF WebhookStatus(sig) # 0
    THEN /\ Admit
         /\ rejected' = WebhookResponse(WebhookStatus(sig))
         /\ UNCHANGED <<db, stripeSide, handlers, history>>
    ELSE Dispatch(ev)

\* ------------------------------------------- POST /payments/:id/mark-paid
\* Validation of the amount and ensureWorkspaceAdmin.  0: the request goes on;
\* any other status is returned at once, before any write.
MarkPaidStatus(actor, amount) ==
  IF amount <= 0 THEN 400
  ELSE IF ~IsWorkspaceAdmin(actor) THEN 403
  ELSE 0

\* A mark-paid request that is refused: 400 before the row is read, 403
\* after it; nothing is written.
MarkPaid_Rejected(actor, p, amount) ==
  /\ p \in DOMAIN payments
  /\ MarkPaidStatus(actor, amount) # 0
  /\ Admit
  /\ rejected' = [op |-> "markPaid", status |-> MarkPaidStatus(actor, amount)]
  /\ UNCHANGED <<db, stripeSide, handlers, history>>

\* The read of the Payment row (404 when there is none); the new total is
\* computed from the row as read here.
MarkPaid_Begin(actor, p, amount) ==
  /\ SlotFree
  /\ p \in DOMAIN payments
  /\ MarkPaidStatus(actor, amount) = 0
  /\ Start([kind |-> "markPaid", pc |-> "write", paymentId |-> p,
               amount |-> amount,
               newAmountPaid |-> payments[p].amountPaid + amount])
  /\ UNCHANGED <<db, stripeSide, history>>

\* MarkPaid_Write crediting the manual amount to poolBalance as well.
MarkPaid_Write_Credit(h) ==
  /\ handlers[h].kind = "markPaid" /\ handlers[h].pc = "write"
  /\ LET c == handlers[h]
     IN /\ payments' = UpdatePayment(c.paymentId,
             [status |-> "PAID", method |-> "MANUAL", amountPaid |-> c.newAmountPaid,
              stripeIntentId |-> ManualIntentId(c.amount)])
        /\ manualDelta' = [manualDelta EXCEPT ![c.paymentId] = c.amount]
        /\ poolBalance' = poolBalance + c.amount
  /\ Finish(h)
  /\ UNCHANGED <<payouts, payoutSeq, stripeSide, settled, refundCount, organizer, circle>>

\* payment.update of mark-paid; the manual amount goes into stripeIntentId.
MarkPaid_Write(h) ==
  /\ handlers[h].kind = "markPaid" /\ handlers[h].pc = "write"
  /\ LET c == handlers[h]
     IN /\ payments' = UpdatePayment(c.paymentId,
             [status |-> "PAID", method |-> "MANUAL", amountPaid |-> c.newAmountPaid,
              stripeIntentId |-> ManualIntentId(c.amount)])
        /\ manualDelta' = [manualDelta EXCEPT ![c.paymentId] = c.amount]
  /\ Finish(h)
  /\ UNCHANGED <<poolBalance, payouts, payoutSeq, stripeSide, settled, refundCount, organizer, circle>>

\* ----------------------------------------- POST /payments/:id/undo-manual
\* payment.method !== "MANUAL" || !payment.stripeIntentId?.startsWith("manual_")
NotManuallyPaid(payment) ==
  payment.method # "MANUAL" \/ ~StartsWith(payment.stripeIntentId, ManualPrefix)

\* UndoManualStatus without the check that the row is a manual settlement.
UndoManualStatus_NoManualCheck(actor, p) ==
  IF ~IsWorkspaceAdmin(actor) THEN 403 ELSE 0

\* ensureWorkspaceAdmin and the manual check.  0: the request goes on.
UndoManualStatus(actor, p) ==
  IF ~IsWorkspaceAdmin(actor) THEN 403
  ELSE IF NotManuallyPaid(payments[p]) THEN 400
  ELSE 0

\* Math.max(0, amountPaid - parseFloat(stripeIntentId.replace("manual_", "")))
UndoneAmountPaid(payment) ==
  Max(0, payment.amountPaid - ParseFloat(StripManual(payment.stripeIntentId)))

\* An undo-manual call that fails a check returns at once with its status.
UndoManual_Rejected(actor, p) ==
  /\ p \in DOMAIN payments
  /\ UndoManualStatus(actor, p) # 0
  /\ Admit
  /\ rejected' = [op |-> "undoManual", status |-> UndoManualStatus(actor, p),
                  paymentId |-> p]
  /\ UNCHANGED <<db, stripeSide, handlers, history>>

\* The read of the Payment row (404 when there is none) and the checks.
UndoManual_Begin(actor, p) ==
  /\ SlotFree
  /\ p \in DOMAIN payments
  /\ UndoManualStatus(actor, p) = 0
  /\ Start([kind |-> "undoManual", pc |-> "write", paymentId |-> p,
               newAmountPaid |-> UndoneAmountPaid(payments[p])])
  /\ UNCHANGED <<db, stripeSide, history>>

\* payment.update of undo-manual.
UndoManual_Write(h) ==
  /\ handlers[h].kind = "undoManual" /\ handlers[h].pc = "write"
  /\ LET c == handlers[h]
     IN /\ payments' = UpdatePayment(c.paymentId,
             [status |-> "PENDING", method |-> "STRIPE", amountPaid |-> c.newAmountPaid,
              stripeIntentId |-> Null])
        /\ manualDelta' = [manualDelta EXCEPT ![c.paymentId] = 0]
  /\ Finish(h)
  /\ UNCHANGED <<poolBalance, payouts, payoutSeq, stripeSide, settled, refundCount, organizer, circle>>

\* ------------------------------ POST /payments/:id/create-checkout-session
\* CreateCheckoutSessionStatus without the ownership check.
CreateCheckoutSessionStatus_NoOwnerCheck(actor, p, amount) ==
  IF amount <= 0 THEN 400 ELSE 0

\* The ownership check and the amount check.  0: the request goes on.
CreateCheckoutSessionStatus(actor, p, amount) ==
  IF MemberOf(p) # actor THEN 403
  ELSE IF amount <= 0 THEN 400
  ELSE 0

\* A create-checkout-session request that is refused after the row was read:
\* 403 for another user's share, 400 for the amount; no session is created
\* and nothing is written.
CreateCheckoutSession_Rejected(actor, p, amount) ==
  /\ p \in DOMAIN payments
  /\ CreateCheckoutSessionStatus(actor, p, amount) # 0
  /\ Admit
  /\ rejected' = [op |-> "createCheckoutSession",
                  status |-> CreateCheckoutSessionStatus(actor, p, amount)]
  /\ UNCHANGED <<db, stripeSide, handlers, history>>

\* The read of the Payment row (404 when there is none), the checks, then
\* stripe.checkout.sessions.create, which creates the
\* session at the processor with the payment id and String(chargeAmount) in
\* its metadata (when it throws instead, the handler returns 500 before any
\* write).
CreateCheckoutSession_Begin(actor, p, amount) ==
  /\ SlotFree
  /\ Cardinality(sessions) < MaxSessions
  /\ p \in DOMAIN payments
  /\ CreateCheckoutSessionStatus(actor, p, amount) = 0
  /\ LET sid == Cardinality(sessions) + 1
     IN /\ sessions' = sessions \cup
             {[id |-> sid,
               metadata |-> [paymentId |-> p, chargeAmount |-> NumToStr(amount)]]}
        /\ Start([kind |-> "createCheckoutSession", pc |-> "store",
                     paymentId |-> p, sid |-> sid])
  /\ UNCHANGED <<db, transfers, history>>

\* payment.update storing the session id on the row.
CreateCheckoutSession_Store(h) ==
  /\ handlers[h].kind = "createCheckoutSession" /\ handlers[h].pc = "store"
  /\ LET c == handlers[h]
     IN payments' = UpdatePayment(c.paymentId,
          [stripeIntentId |-> SessionRef(c.sid), status |-> "PENDING",
           method |-> "STRIPE"])
  /\ Finish(h)
  /\ UNCHANGED <<poolBalance, payouts, payoutSeq, stripeSide, history, organizer, circle>>

\* ------------------------------------------------------------ specification
\* A request or a notification arrives and its handler runs up to its first
\* await after which other handlers may run.
Arrive ==
  \/ \E actor \in Users, amount \in AmountInputs : RequestPayout_Begin(actor, TRUE, amount)
  \/ \E actor \in Users : RequestPayout_Begin(actor, FALSE, 0)
  \/ \E sid \in SessionIds, paid \in BOOLEAN : CheckoutCompleted_Begin(sid, paid)
  \/ \E i \in PayoutIds : HandleTransferCreated(i)
  \/ \E i \in PayoutIds : TransferFailed_Begin(i)
  \/ \E actor \in Users, p \in PaymentIds, amount \in AmountInputs :
       MarkPaid_Begin(actor, p, amount)
  \/ \E actor \in Users, p \in PaymentIds : UndoManual_Begin(actor, p)
  \/ \E actor \in Users, p \in PaymentIds, amount \in AmountInputs :
       CreateCheckoutSession_Begin(actor, p, amount)

\* A handler in flight resumes after an await.
Resume ==
  \E h \in Slots :
    \/ RequestPayout_CheckPending(h)
    \/ RequestPayout_Tx(h)
    \/ \E ok \in BOOLEAN : RequestPayout_Transfer(h, ok)
    \/ \E ok \in BOOLEAN : RequestPayout_Update(h, ok)
    \/ RequestPayout_Rollback(h)
    \/ CheckoutCompleted_Tx(h)
    \/ TransferFailed_Tx(h)
    \/ MarkPaid_Write(h)
    \/ UndoManual_Write(h)
    \/ CreateCheckoutSession_Store(h)

Next == Arrive \/ Resume
Spec == Init /\ [][Next]_vars
SpecSeq == InitSeq /\ [][Next]_vars

\* The same handlers together with the requests that are rejected at once and
\* the notifications about the organizer's Connect account.
InitAccess ==
  /\ Created
  /\ organizer \in {[stripeAccountId |-> AccountRef, stripePayoutsEnabled |-> e] :
                      e \in BOOLEAN}
  /\ Restricting
  /\ overlapLimit = MaxOverlaps
  /\ arrivalLimit = MaxAccessArrivals

ArriveAccess ==
  \/ \E actor \in Users, amount \in AmountInputs :
       RequestPayout_Rejected(actor, TRUE, amount)
  \/ \E actor \in Users : RequestPayout_Rejected(actor, FALSE, 0)
  \/ \E payoutsEnabled \in BOOLEAN : AccountUpdated_Begin(payoutsEnabled)
  \/ AccountDeauthorized_Begin
  \/ \E actor \in Users, p \in PaymentIds : UndoManual_Rejected(actor, p)
  \/ \E actor \in Users, p \in PaymentIds, amount \in AmountInputs :
       MarkPaid_Rejected(actor, p, amount)
  \/ \E actor \in Users, p \in PaymentIds, amount \in AmountInputs :
       CreateCheckoutSession_Rejected(actor, p, amount)
  \/ \E sig \in SignatureHeaders, ev \in WebhookEvents : StripeWebhook(sig, ev)

ResumeAccess ==
  \E h \in Slots :
    \/ AccountUpdated_Write(h)
    \/ AccountDeauthorized_Write(h)

NextAccess == Next \/ ArriveAccess \/ ResumeAccess
SpecAccess == InitAccess /\ [][NextAccess]_vars

\* ------------------------------------------------------------ deletion
\* DELETE /circles/:id by a workspace admin (404 without circle, 403 for
\* others): one transaction deleting the Payment rows of the circle's
\* members, its PaymentEvents, its Memberships and the circle.  It deletes no
\* Payout row; the table definition of Payout is not among the repository's
\* files, so both referential actions of Payout.paymentEventId are explored:
\* under RESTRICT paymentEvent.deleteMany fails while a Payout row references
\* the event and the transaction rolls back (500), under CASCADE the Payout
\* rows go with the event.
DeleteCircle(actor) ==
  /\ deleted = "none"
  /\ IsWorkspaceAdmin(actor)
  /\ Admit
  /\ IF payouts # {} /\ payoutFk = "RESTRICT"
       THEN /\ rejected' = [op |-> "deleteCircle", status |-> 500]
            /\ UNCHANGED <<poolBalance, payments, payouts, memberships, eventCreated,
                           deleted>>
       ELSE /\ rejected' = NoRejection
            /\ payments' = << >>
            /\ payouts' = {}
            /\ memberships' = {}
            /\ eventCreated' = FALSE
            /\ poolBalance' = 0
            /\ deleted' = "circle"
  /\ UNCHANGED <<payoutSeq, organizer, payoutFk, organizerId, stripeSide, handlers, history>>

\* DELETE /workspaces/:id by a workspace admin (403 for others): one
\* transaction deleting Payouts, Payments, PaymentEvents, Memberships, circles,
\* workspace members and the workspace, in this order.
DeleteWorkspace(actor) ==
  /\ deleted # "workspace"
  /\ IsWorkspaceAdmin(actor)
  /\ Accept
  /\ payments' = << >>
  /\ payouts' = {}
  /\ memberships' = {}
  /\ eventCreated' = FALSE
  /\ poolBalance' = 0
  /\ deleted' = "workspace"
  /\ UNCHANGED <<payoutSeq, organizer, payoutFk, organizerId, stripeSide, handlers, history>>

\* The handlers of the ledger, one after the other, and the two deletions.
InitDelete ==
  /\ Created /\ Onboarded
  /\ payoutFk \in {"RESTRICT", "CASCADE"}
  /\ overlapLimit = 0
  /\ arrivalLimit = MaxDeleteArrivals

ArriveDelete ==
  \/ \E actor \in Users : DeleteCircle(actor)
  \/ \E actor \in Users : DeleteWorkspace(actor)

NextDelete == Next \/ ArriveDelete
SpecDelete == InitDelete /\ [][NextDelete]_vars

\* ------------------------------------------- the Payment rows of an event
\* POST /payment-events creates the event and one Payment row per member of
\* the circle; GET /payments/by-event/:eventId upserts a row per member
\* before it lists them; POST /memberships adds a member to the circle.
RowIds == <<"p1", "p2", "p3">>
\* everything these handlers leave alone
ledger == <<poolBalance, payouts, payoutSeq, organizer, stripeSide, history>>

\* Payment_paymentEventId_membershipId_key: an insert of rows for the members
\* ms is refused when a row of the event exists for one of them.
UniqueViolation_NoIndex(ms) == FALSE
UniqueViolation(ms) == \E p \in DOMAIN payments : payments[p].membershipId \in ms
\* the lookup of the row of member m
RowExistsFor(m) == \E p \in DOMAIN payments : payments[p].membershipId = m

\* a new Payment row: PENDING, amountPaid 0
FreshRow(m, method) ==
  [membershipId |-> m, amountPaid |-> 0, status |-> "PENDING",
   method |-> method, stripeIntentId |-> Null]

RECURSIVE InsertRows(_, _, _)
\* the table f with one new PENDING row, amountPaid 0, for each member in ms
InsertRows(f, ms, method) ==
  IF ms = {} THEN f
  ELSE LET m == CHOOSE x \in ms : TRUE
           id == RowIds[Cardinality(DOMAIN f) + 1]
           row == FreshRow(m, method)
       IN InsertRows([q \in DOMAIN f \cup {id} |-> IF q = id THEN row ELSE f[q]],
                     ms \ {m}, method)
RoomFor(ms) == Cardinality(DOMAIN payments) + Cardinality(ms) <= Len(RowIds)

\* POST /payment-events by a user who is not a member of the circle:
\* ensureCircleMembership answers 403 before any write.
CreateEvent_Rejected(actor) ==
  /\ ~eventCreated
  /\ actor \notin memberships
  /\ Admit
  /\ rejected' = [op |-> "createEvent", status |-> 403]
  /\ UNCHANGED <<payments, circle, ledger, handlers>>

\* POST /payment-events up to ensureCircleMembership: only a member of the
\* circle goes on (403 otherwise, before any write).
CreateEvent_Begin(actor) ==
  /\ SlotFree
  /\ ~eventCreated
  /\ \A g \in Slots : handlers[g].kind # "createEvent"
  /\ actor \in memberships
  /\ Start([kind |-> "createEvent", pc |-> "create", actor |-> actor, snapshot |-> {}])
  /\ UNCHANGED <<payments, circle, ledger>>

\* CreateEvent_Create with a fixed user as the organizer.
CreateEvent_Create_FixedOrganizer(h) ==
  /\ handlers[h].kind = "createEvent" /\ handlers[h].pc = "create"
  /\ eventCreated' = TRUE
  /\ organizerId' = EventOrganizer
  /\ poolBalance' = 0
  /\ Goto(h, "findMembers")
  /\ UNCHANGED <<payments, memberships, deleted, payoutFk, payouts, payoutSeq, organizer,
                 stripeSide, history>>

\* prisma.paymentEvent.create with organizerId: userId and poolBalance 0.
CreateEvent_Create(h) ==
  /\ handlers[h].kind = "createEvent" /\ handlers[h].pc = "create"
  /\ eventCreated' = TRUE
  /\ organizerId' = handlers[h].actor
  /\ poolBalance' = 0
  /\ Goto(h, "findMembers")
  /\ UNCHANGED <<payments, memberships, deleted, payoutFk, payouts, payoutSeq, organizer,
                 stripeSide, history>>

\* prisma.membership.findMany of the circle.
CreateEvent_FindMembers(h) ==
  /\ handlers[h].kind = "createEvent" /\ handlers[h].pc = "findMembers"
  /\ handlers' = [handlers EXCEPT ![h].pc = "createMany", ![h].snapshot = memberships]
  /\ UNCHANGED <<payments, circle, ledger, budget, rejected>>

\* prisma.payment.createMany for the members read before: all rows or, when
\* the unique index refuses one of them, none (the handler answers 500).
CreateEvent_CreateMany(h) ==
  /\ handlers[h].kind = "createEvent" /\ handlers[h].pc = "createMany"
  /\ RoomFor(handlers[h].snapshot)
  /\ IF UniqueViolation(handlers[h].snapshot)
       THEN UNCHANGED payments
       ELSE payments' = InsertRows(payments, handlers[h].snapshot, "MANUAL")
  /\ Finish(h)
  /\ UNCHANGED <<circle, ledger>>

\* GET /payments/by-event/:eventId up to the read of the event (404 when it
\* does not exist).
ByEvent_Begin(actor) ==
  /\ SlotFree
  /\ eventCreated
  /\ Start([kind |-> "byEvent", pc |-> "checkMember", actor |-> actor,
            members |-> {}, todo |-> {}, current |-> "", found |-> FALSE])
  /\ UNCHANGED <<payments, circle, ledger>>

\* ensureCircleMembership: a non-member gets 403.
ByEvent_CheckMember(h) ==
  /\ handlers[h].kind = "byEvent" /\ handlers[h].pc = "checkMember"
  /\ IF handlers[h].actor \in memberships THEN Goto(h, "findMembers") ELSE Finish(h)
  /\ UNCHANGED <<payments, circle, ledger>>

\* prisma.membership.findMany of the circle.
ByEvent_FindMembers(h) ==
  /\ handlers[h].kind = "byEvent" /\ handlers[h].pc = "findMembers"
  /\ handlers' = [handlers EXCEPT ![h].pc = "upsertRead", ![h].members = memberships,
                                  ![h].todo = memberships]
  /\ UNCHANGED <<payments, circle, ledger, budget, rejected>>

\* prisma.payment.upsert for the next member m: the lookup by
\* (paymentEventId, membershipId).
ByEvent_UpsertRead(h, m) ==
  /\ handlers[h].kind = "byEvent" /\ handlers[h].pc = "upsertRead"
  /\ m \in handlers[h].todo
  /\ handlers' = [handlers EXCEPT ![h].pc = "upsertWrite", ![h].current = m,
                                  ![h].found = RowExistsFor(m)]
  /\ UNCHANGED <<payments, circle, ledger, budget, rejected>>

\* the row of member m
RowOf(m) == CHOOSE p \in DOMAIN payments : payments[p].membershipId = m
\* ByEvent_UpsertWrite with the create data as the update of a row found.
ByEvent_UpsertWrite_Overwrite(h) ==
  /\ handlers[h].kind = "byEvent" /\ handlers[h].pc = "upsertWrite"
  /\ LET c == handlers[h]
         rest == c.todo \ {c.current}
     IN /\ IF RowExistsFor(c.current)
             THEN payments' = [payments EXCEPT ![RowOf(c.current)] = FreshRow(c.current, "STRIPE")]
             ELSE RoomFor({c.current}) /\ payments' = InsertRows(payments, {c.current}, "STRIPE")
        /\ handlers' = [handlers EXCEPT ![h].todo = rest,
               ![h].pc = IF rest = {} THEN "list" ELSE "upsertRead"]
        /\ UNCHANGED <<budget, rejected>>
  /\ UNCHANGED <<circle, ledger>>

\* prisma.payment.upsert for m: update {} of the row found, or the insert of
\* a new row, which the unique index refuses when a row for m has appeared
\* since the lookup (the handler then answers 500).
ByEvent_UpsertWrite(h) ==
  /\ handlers[h].kind = "byEvent" /\ handlers[h].pc = "upsertWrite"
  /\ LET c == handlers[h]
         rest == c.todo \ {c.current}
     IN IF c.found
          THEN /\ UNCHANGED payments
               /\ handlers' = [handlers EXCEPT ![h].todo = rest,
                      ![h].pc = IF rest = {} THEN "list" ELSE "upsertRead"]
               /\ UNCHANGED <<budget, rejected>>
          ELSE /\ RoomFor({c.current})
               /\ IF UniqueViolation({c.current})
                    THEN UNCHANGED payments /\ Finish(h)
                    ELSE /\ payments' = InsertRows(payments, {c.current}, "STRIPE")
                         /\ handlers' = [handlers EXCEPT ![h].todo = rest,
                                ![h].pc = IF rest = {} THEN "list" ELSE "upsertRead"]
                         /\ UNCHANGED <<budget, rejected>>
  /\ UNCHANGED <<circle, ledger>>

\* prisma.payment.findMany and the response.
ByEvent_List(h) ==
  /\ handlers[h].kind = "byEvent" /\ handlers[h].pc = "list"
  /\ Finish(h)
  /\ UNCHANGED <<payments, circle, ledger>>

\* POST /memberships: a user who is not a member yet becomes one.
AddMember(u) ==
  /\ u \notin memberships
  /\ Accept
  /\ memberships' = memberships \cup {u}
  /\ UNCHANGED <<payments, eventCreated, deleted, payoutFk, organizerId, ledger, handlers>>

\* The circle before the event is created: no event, no Payment row.
InitRoster ==
  /\ poolBalance = 0
  /\ payments = << >>
  /\ memberships \in SUBSET Users \ {{}}
  /\ eventCreated = FALSE
  /\ organizerId = ""
  /\ deleted = "none"
  /\ Restricting
  /\ payouts = {}
  /\ payoutSeq = 0
  /\ sessions = {}
  /\ transfers = {}
  /\ handlers = [h \in Slots |-> Idle]
  /\ arrivals = 0
  /\ overlaps = 0
  /\ settled = {}
  /\ refundCount = [i \in PayoutIds |-> 0]
  /\ manualDelta = [p \in PaymentIds |-> 0]
  /\ rejected = NoRejection
  /\ Onboarded
  /\ overlapLimit = MaxOverlaps
  /\ arrivalLimit = MaxRosterArrivals

ArriveRoster ==
  \/ \E actor \in Users : CreateEvent_Begin(actor)
  \/ \E actor \in Users : CreateEvent_Rejected(actor)
  \/ \E actor \in Users : ByEvent_Begin(actor)
  \/ \E u \in Users : AddMember(u)
  \/ \E actor \in Users, p \in PaymentIds, amount \in AmountInputs :
       MarkPaid_Begin(actor, p, amount)

ResumeRoster ==
  \E h \in Slots :
    \/ CreateEvent_Create(h)
    \/ CreateEvent_FindMembers(h)
    \/ CreateEvent_CreateMany(h)
    \/ ByEvent_CheckMember(h)
    \/ ByEvent_FindMembers(h)
    \/ \E m \in Users : ByEvent_UpsertRead(h, m)
    \/ ByEvent_UpsertWrite(h)
    \/ ByEvent_List(h)
    \/ MarkPaid_Write(h)

NextRoster == ArriveRoster \/ ResumeRoster
SpecRoster == InitRoster /\ [][NextRoster]_vars

\* ------------------------------------------------------------------- ledger
RECURSIVE SumAmountPaid(_)
\* reduce((sum, p) => sum + p.amountPaid, 0) over Payment rows
SumAmountPaid(S) ==
  IF S = {} THEN 0
  ELSE LET p == CHOOSE x \in S : TRUE
       IN payments[p].amountPaid + SumAmountPaid(S \ {p})
RECURSIVE SumAmount(_)
\* reduce((sum, p) => sum + p.amount, 0) over Payout rows
SumAmount(R) ==
  IF R = {} THEN 0
  ELSE LET r == CHOOSE x \in R : TRUE
       IN r.amount + SumAmount(R \ {r})
\* payments.filter(p => p.status === "PAID"), summed
TotalPaidIn == SumAmountPaid({p \in PaymentIds : payments[p].status = "PAID"})
\* payouts.filter(p => ["pending", "in_transit", "paid"].includes(p.status)), summed
TotalPaidOut ==
  SumAmount({r \in payouts : r.status \in {"pending", "in_transit", "paid"}})

InFlightPayouts == {r \in payouts : r.status \in {"pending", "in_transit"}}

\* ------------------------------------------- payouts and their notifications
\* A notification of a type the switch of the webhook route has no case for
\* (default branch): acknowledged, nothing is written.
UnhandledEventType ==
  /\ Admit
  /\ rejected' = WebhookResponse(200)
  /\ UNCHANGED <<db, stripeSide, handlers, history>>

\* payouts whose transfer exists and whose transfer.created has not been
\* applied yet
DueCreated == {r \in payouts : r.id \in transfers /\ r.status = "pending"}
\* request-payout invocations that may still create a transfer
MayTransfer ==
  {g \in Slots : handlers[g].kind = "requestPayout"
                   /\ handlers[g].pc \in {"checkPending", "tx", "transfer"}}
\* an arrival leaves room for the notifications of the transfers created
\* and of the one it may lead to
RoomForArrival ==
  arrivals + Cardinality(DueCreated) + Cardinality(MayTransfer) + 1 < arrivalLimit

\* the processor delivers transfer.created of every transfer it created
DeliverTransferCreated ==
  \E r \in DueCreated : HandleTransferCreated(r.id)

\* One contribution is settled through the processor (amount a is in the
\* pool); the organizer requests payouts, the processor reports on the
\* transfers.  Requests run one after the other.
InitLive ==
  /\ \E a \in Amounts :
       /\ poolBalance = a
       /\ payments = [p \in PaymentIds |->
            IF p = "p1"
              THEN [membershipId |-> MemberOf(p), amountPaid |-> a, status |-> "PAID",
                    method |-> "STRIPE", stripeIntentId |-> SessionRef(1)]
              ELSE FreshRow(MemberOf(p), "MANUAL")]
       /\ sessions = {[id |-> 1,
                        metadata |-> [paymentId |-> "p1", chargeAmount |-> NumToStr(a)]]}
  /\ settled = {1}
  /\ memberships = Users
  /\ eventCreated = TRUE
  /\ organizerId = EventOrganizer
  /\ deleted = "none"
  /\ Restricting
  /\ payouts = {}
  /\ payoutSeq = 0
  /\ transfers = {}
  /\ handlers = [h \in Slots |-> Idle]
  /\ arrivals = 0
  /\ overlaps = 0
  /\ refundCount = [i \in PayoutIds |-> 0]
  /\ manualDelta = [p \in PaymentIds |-> 0]
  /\ rejected = NoRejection
  /\ Onboarded
  /\ overlapLimit = 0
  /\ arrivalLimit = MaxLiveArrivals

ArriveLive ==
  \/ \E actor \in Users, amount \in AmountInputs :
       RoomForArrival /\ RequestPayout_Begin(actor, TRUE, amount)
  \/ \E actor \in Users : RoomForArrival /\ RequestPayout_Begin(actor, FALSE, 0)
  \/ \E i \in PayoutIds : RoomForArrival /\ TransferFailed_Begin(i)
  \/ RoomForArrival /\ UnhandledEventType

ResumeLive ==
  \E h \in Slots :
    \/ RequestPayout_CheckPending(h)
    \/ RequestPayout_Tx(h)
    \/ \E ok \in BOOLEAN : RequestPayout_Transfer(h, ok)
    \/ \E ok \in BOOLEAN : RequestPayout_Update(h, ok)
    \/ RequestPayout_Rollback(h)
    \/ TransferFailed_Tx(h)

NextLive == ArriveLive \/ DeliverTransferCreated \/ ResumeLive
\* handlers run on, and the processor delivers the notifications it owes
SpecLive ==
  /\ InitLive /\ [][NextLive]_vars
  /\ WF_vars(ResumeLive) /\ WF_vars(DeliverTransferCreated)

\* ----------------------------------------------------- the payout listings
PayoutStatuses == {"pending", "in_transit", "paid", "failed"}

\* GET /payment-events/:eventId/payouts: the sum over pending, in_transit
\* and paid rows.
EventTotalPaidOut(rows) ==
  SumAmount({r \in rows : r.status \in {"pending", "in_transit", "paid"}})
\* OrganizerTotalPending counting pending rows only.
OrganizerTotalPending_PendingOnly(rows) ==
  SumAmount({r \in rows : r.status \in {"pending"}})
\* GET /connect/payouts: the sum over paid rows, and over pending and
\* in_transit rows.
OrganizerTotalPaidOut(rows) == SumAmount({r \in rows : r.status \in {"paid"}})
OrganizerTotalPending(rows) ==
  SumAmount({r \in rows : r.status \in {"pending", "in_transit"}})

\* GET /payment-events/:eventId/payouts by a user without a membership of
\* the circle: 403 (404 when the event does not exist).
ListEventPayouts_Rejected(actor) ==
  /\ eventCreated
  /\ actor \notin memberships
  /\ Admit
  /\ rejected' = [op |-> "listEventPayouts", status |-> 403]
  /\ UNCHANGED <<db, stripeSide, handlers, history>>

\* The read of the event with the caller's membership.
ListEventPayouts_Begin(actor) ==
  /\ SlotFree
  /\ eventCreated
  /\ actor \in memberships
  /\ Start([kind |-> "listEventPayouts", pc |-> "findMany", actor |-> actor,
            currentBalance |-> poolBalance])
  /\ UNCHANGED <<db, stripeSide, history>>

\* prisma.payout.findMany of the event, the total and the response.
ListEventPayouts_FindMany(h) ==
  /\ handlers[h].kind = "listEventPayouts" /\ handlers[h].pc = "findMany"
  /\ rejected' = [op |-> "listEventPayouts", status |-> 200,
                  payouts |-> {r.id : r \in payouts},
                  totalPaidOut |-> EventTotalPaidOut(payouts),
                  currentBalance |-> handlers[h].currentBalance]
  /\ handlers' = [handlers EXCEPT ![h] = Idle]
  /\ UNCHANGED <<db, stripeSide, history, budget>>

\* GET /connect/payouts: prisma.payout.findMany where organizerId is the
\* caller, the two totals and the response.
ListOrganizerPayouts(actor) ==
  /\ Admit
  /\ LET rows == {r \in payouts : r.organizerId = actor}
     IN rejected' = [op |-> "listOrganizerPayouts", status |-> 200,
                     payouts |-> {r.id : r \in rows},
                     totalPaidOut |-> OrganizerTotalPaidOut(rows),
                     totalPending |-> OrganizerTotalPending(rows),
                     totalPayouts |-> Cardinality(rows)]
  /\ UNCHANGED <<db, stripeSide, handlers, history>>

\* a Payout row as the listings may find it, in any status of the status
\* column (no handler of the repository writes paid; the totals read it)
PayoutRows(i, who) ==
  {[id |-> i, organizerId |-> who, amount |-> a, status |-> st,
    stripeTransferId |-> Null, failureReason |-> ""] :
     a \in Amounts, st \in PayoutStatuses}
\* the tables with one row for each of the first n payout ids
PayoutTables(n, who) ==
  {{f[i] : i \in 1..n} : f \in [1..n -> UNION {PayoutRows(i, who) : i \in 1..n}]}

\* The listings on their own, over every table of Payout rows of the
\* event's organizer; the totals are functions of the rows read.
InitQuery ==
  /\ poolBalance = 0
  /\ payments = [p \in PaymentIds |-> FreshRow(MemberOf(p), "MANUAL")]
  /\ memberships \in {{"u1"}, Users}
  /\ eventCreated = TRUE
  /\ organizerId = EventOrganizer
  /\ deleted = "none"
  /\ Restricting
  /\ payoutSeq \in 0..MaxPayouts
  /\ payouts \in {t \in PayoutTables(payoutSeq, organizerId) :
                    \A i \in 1..payoutSeq : \E r \in t : r.id = i}
  /\ sessions = {}
  /\ transfers = {}
  /\ handlers = [h \in Slots |-> Idle]
  /\ arrivals = 0
  /\ overlaps = 0
  /\ settled = {}
  /\ refundCount = [i \in PayoutIds |-> 0]
  /\ manualDelta = [p \in PaymentIds |-> 0]
  /\ rejected = NoRejection
  /\ Onboarded
  /\ overlapLimit = 0
  /\ arrivalLimit = MaxQueryArrivals

ArriveQuery ==
  \/ \E actor \in Users : ListEventPayouts_Rejected(actor)
  \/ \E actor \in Users : ListEventPayouts_Begin(actor)
  \/ \E actor \in Users : ListOrganizerPayouts(actor)

ResumeQuery == \E h \in Slots : ListEventPayouts_FindMany(h)

NextQuery == ArriveQuery \/ ResumeQuery
SpecQuery == InitQuery /\ [][NextQuery]_vars

\* ------------------------------------------------------------------- claims

\* C1: in every reachable state poolBalance equals the sum of amountPaid over
\* the PAID contributions minus the sum of the amounts of the payouts that
\* are pending, in_transit or paid.
C1_LedgerInvariant == poolBalance = TotalPaidIn - TotalPaidOut

\* C2: poolBalance is never negative, whatever the interleaving of payout
\* requests, notifications and rollbacks.
C2_BalanceNonNegative == poolBalance >= 0

\* C3: of two request-payout calls in flight together that saw the same
\* balance and whose amounts together exceed it, at most one has created a
\* Payout row (and reserved its amount).
C3_OneOfTwoRacingPayouts ==
  \A g, h \in Slots :
    (/\ g # h
     /\ handlers[g].kind = "requestPayout" /\ handlers[h].kind = "requestPayout"
     /\ handlers[g].seenBalance = handlers[h].seenBalance
     /\ handlers[g].requestedAmount + handlers[h].requestedAmount > handlers[g].seenBalance)
    => ~(handlers[g].payoutId # 0 /\ handlers[h].payoutId # 0)

\* C4: at most one payout of the event is pending or in_transit at any time.
C4_SingleFlight == Cardinality(InFlightPayouts) <= 1

\* C5: processing a checkout.session.completed notification whose session
\* has already been settled changes neither the contribution's amountPaid nor
\* poolBalance.
C5_CheckoutCompletedIdempotent ==
  [][\A h \in Slots :
       (CheckoutCompleted_Tx(h) /\ handlers[h].sid \in settled)
       => /\ payments'[handlers[h].paymentId].amountPaid
               = payments[handlers[h].paymentId].amountPaid
          /\ poolBalance' = poolBalance]_vars

\* C6: a transfer.failed for a payout that is pending or in_transit marks it
\* failed and adds exactly its amount to poolBalance; for a payout that is
\* already failed or paid it changes neither poolBalance nor the payout.
C6_RefundExactlyOnce ==
  [][\A h \in Slots :
       (TransferFailed_Tx(h) /\ PayoutExists(handlers[h].payoutId))
       => LET r == PayoutById(handlers[h].payoutId)
          IN IF r.status \in {"pending", "in_transit"}
               THEN /\ poolBalance' = poolBalance + r.amount
                    /\ \E q \in payouts' : q.id = r.id /\ q.status = "failed"
               ELSE poolBalance' = poolBalance /\ payouts' = payouts]_vars

\* C7: a payout's status changes only pending -> in_transit,
\* in_transit -> paid, or pending / in_transit -> failed; failed and paid are
\* never left.
StatusTransitions ==
  {<<"pending", "in_transit">>, <<"in_transit", "paid">>,
   <<"pending", "failed">>, <<"in_transit", "failed">>}
C7_StatusNeverRegresses ==
  [][\A r \in payouts : \A q \in payouts' :
       q.id = r.id => (q.status = r.status \/ <<r.status, q.status>> \in StatusTransitions)]_vars

\* C8: transfer.created moves a pending payout to in_transit and stores the
\* transfer reference, changes no field of a payout that is already
\* in_transit, failed or paid, and never changes poolBalance.
C8_TransferCreatedEffect ==
  [][\A i \in PayoutIds :
       (HandleTransferCreated(i) /\ PayoutExists(i))
       => /\ poolBalance' = poolBalance
          /\ IF PayoutById(i).status = "pending"
               THEN payouts' = UpdatePayout(i,
                      [status |-> "in_transit", stripeTransferId |-> TransferRef(i)])
               ELSE payouts' = payouts]_vars

\* C9: once a transfer.failed has been processed for a payout and no handler
\* is working on that payout, the payout is failed and its amount has been
\* refunded exactly once, whatever transfer.created and transfer.failed
\* deliveries came before, in whatever order.
WorkingOn(i) ==
  \E h \in Slots :
    handlers[h].kind \in {"requestPayout", "transferFailed"} /\ handlers[h].payoutId = i
C9_TransferOrderIndependent ==
  \A i \in PayoutIds :
    (refundCount[i] >= 1 /\ ~WorkingOn(i))
    => /\ PayoutExists(i)
       /\ PayoutById(i).status = "failed"
       /\ refundCount[i] = 1

\* C10: while a manual settlement of amount a on a contribution has not been
\* undone, whatever was settled or started on that contribution since, an
\* admin's undo-manual is accepted and takes exactly a off amountPaid.
C10_ExactReversal ==
  \A p \in PaymentIds :
    (AllIdle /\ manualDelta[p] > 0)
    => /\ UndoManualStatus("u1", p) = 0
       /\ UndoneAmountPaid(payments[p]) = payments[p].amountPaid - manualDelta[p]

\* C11: from poolBalance 0, after the two members each settled a through
\* checkout.completed poolBalance is 2a; after a successful request-payout of
\* 2a poolBalance is 0 and the payout is pending; transfer.created then makes
\* it in_transit with poolBalance still 0; transfer.failed then makes it
\* failed with poolBalance 2a again.
\* Both members have one session of amount a each, both settled.
BothSettled(a) ==
  /\ Cardinality(sessions) = 2
  /\ settled = {1, 2}
  /\ \A p \in PaymentIds :
       \E r \in sessions :
         r.metadata.paymentId = p /\ r.metadata.chargeAmount = NumToStr(a)
\* ... and nothing else has happened since the event was created.
ScenarioSettled(a) == arrivals = 4 /\ AllIdle /\ BothSettled(a)
\* ... then one request-payout of 2a has succeeded.
ScenarioRequested(a) ==
  /\ arrivals = 5 /\ AllIdle /\ BothSettled(a)
  /\ payoutSeq = 1 /\ PayoutExists(1) /\ PayoutById(1).amount = 2 * a
\* ... then transfer.created has been processed.
ScenarioInTransit(a) ==
  /\ arrivals = 6 /\ AllIdle /\ BothSettled(a)
  /\ payoutSeq = 1 /\ PayoutExists(1) /\ PayoutById(1).amount = 2 * a
  /\ PayoutById(1).status = "in_transit"
\* ... then transfer.failed has arrived and h is about to commit it.
ScenarioFailing(a, h) ==
  /\ arrivals = 7 /\ Busy = {h} /\ BothSettled(a)
  /\ payoutSeq = 1 /\ PayoutExists(1) /\ PayoutById(1).amount = 2 * a
  /\ PayoutById(1).status = "in_transit"
  /\ handlers[h].kind = "transferFailed"
C11_EndToEndScenario ==
  /\ [](\A a \in Amounts :
         /\ ScenarioSettled(a) =>
              /\ poolBalance = 2 * a
              /\ \A p \in PaymentIds :
                   payments[p].status = "PAID" /\ payments[p].amountPaid = a
         /\ ScenarioRequested(a) =>
              poolBalance = 0 /\ PayoutById(1).status = "pending"
         /\ ScenarioInTransit(a) => poolBalance = 0)
  /\ [][\A a \in Amounts :
         /\ (ScenarioRequested(a) /\ HandleTransferCreated(1))
              => /\ poolBalance' = 0
                 /\ \E q \in payouts' : q.id = 1 /\ q.status = "in_transit"
         /\ \A h \in Slots :
              (ScenarioFailing(a, h) /\ TransferFailed_Tx(h))
              => /\ poolBalance' = 2 * a
                 /\ \E q \in payouts' : q.id = 1 /\ q.status = "failed"]_vars
\* the scenario has run to its end
C11_ScenarioCompleted ==
  \E a \in Amounts :
    /\ arrivals = 7 /\ AllIdle /\ BothSettled(a)
    /\ payoutSeq = 1 /\ PayoutExists(1) /\ PayoutById(1).amount = 2 * a
    /\ PayoutById(1).status = "failed" /\ refundCount[1] = 1
    /\ PayoutById(1).stripeTransferId = TransferRef(1)
    /\ poolBalance = 2 * a

\* C12: a request-payout without amount that succeeds creates a payout whose
\* amount is the balance read at call time and leaves poolBalance at exactly 0,
\* or, when credits were committed between the read and the reservation, at
\* exactly those credits.
C12_DefaultAmountReservesAll ==
  [][\A h \in Slots :
       (RequestPayout_Tx(h) /\ ~handlers[h].hasAmount)
       => /\ \E q \in payouts' \ payouts : q.amount = handlers[h].seenBalance
          /\ poolBalance' = IF poolBalance > handlers[h].seenBalance
                              THEN poolBalance - handlers[h].seenBalance
                              ELSE 0]_vars

\* C13: when stripe.transfers.create fails, the handler deletes the Payout
\* row this request created and adds the reserved amount back to poolBalance,
\* leaving every other Payout row as it is, and answers with a failure status.
C13_TransferFailureCompensated ==
  [][\A h \in Slots :
       (RequestPayout_Rollback(h) /\ handlers[h].payoutId \notin transfers)
       => LET r == PayoutById(handlers[h].payoutId)
          IN /\ PayoutExists(handlers[h].payoutId)
             /\ r.amount = handlers[h].requestedAmount
             /\ payouts' = payouts \ {r}
             /\ ~\E q \in payouts' : q.id = r.id
             /\ poolBalance' = poolBalance + r.amount
             /\ RollbackStatus >= 400]_vars
\* a request whose transfer could not be created has been compensated: its
\* Payout row is gone, the balance is back at what the request had seen
C13_Compensated ==
  /\ AllIdle /\ payoutSeq = 1 /\ payouts = {} /\ transfers = {}
  /\ poolBalance > 0 /\ Cardinality(settled) = 1 /\ arrivals = 3

\* C14: the request handler's rollback (Payout row deleted, amount credited
\* back) is never run for a payout whose transfer was created at the
\* processor.
C14_RollbackOnlyWithoutTransfer ==
  [][\A h \in Slots :
       RequestPayout_Rollback(h) => handlers[h].payoutId \notin transfers]_vars

\* C15: a request-payout rejected for a non-positive amount, a non-organizer
\* actor, a missing or not payout-enabled destination, insufficient balance or
\* a payout in flight leaves poolBalance, the Payout rows and the transfers
\* as they are; only calls that pass all checks start a reservation; the
\* insufficient-balance response carries the current balance.
InsufficientBalance(actor, requestedAmount) ==
  /\ actor = EventOrganizer /\ HasPayoutDestination(actor)
  /\ requestedAmount > 0 /\ requestedAmount > poolBalance
C15_RejectedPayoutChangesNothing ==
  [][/\ \A actor \in Users, hasAmount \in BOOLEAN, amount \in AmountInputs :
          LET requestedAmount == RequestedAmount(hasAmount, amount)
              refused ==
                \/ requestedAmount <= 0
                \/ actor # EventOrganizer
                \/ organizer.stripeAccountId = Null
                \/ ~organizer.stripePayoutsEnabled
                \/ requestedAmount > poolBalance
          IN /\ RequestPayout_Rejected(actor, hasAmount, amount)
                  => /\ refused
                     /\ UNCHANGED <<poolBalance, payouts, transfers, handlers>>
                     /\ rejected'.status \in {400, 403}
                     /\ InsufficientBalance(actor, requestedAmount)
                          => rejected'.availableBalance = <<poolBalance'>>
             /\ RequestPayout_Begin(actor, hasAmount, amount) => ~refused
     /\ \A h \in Slots :
          (RequestPayout_CheckPending(h) /\ PendingPayoutExists)
          => /\ UNCHANGED <<poolBalance, payouts, transfers>>
             /\ handlers'[h] = Idle]_vars
\* a request for more than the pool holds has just been rejected
C15_InsufficientRejected ==
  /\ rejected.op = "requestPayout" /\ rejected.status = 400
  /\ poolBalance > 0 /\ rejected.availableBalance = <<poolBalance>>
  /\ payouts = {} /\ transfers = {}

\* C16: every Payout row of the event carries the event's organizer as
\* organizerId, and was created by a call made by that organizer while the
\* organizer's Connect account was connected and enabled for payouts at the
\* time the call checked it.
C16_OnlyVerifiedOrganizerCreatesPayout ==
  /\ [](/\ \A r \in payouts : r.organizerId = EventOrganizer
        /\ \A h \in Slots :
             handlers[h].kind = "requestPayout"
             => handlers[h].actor = EventOrganizer /\ handlers[h].destination = AccountRef)
  /\ [][/\ \A actor \in Users, hasAmount \in BOOLEAN, amount \in AmountInputs :
            RequestPayout_Begin(actor, hasAmount, amount)
            => /\ actor = EventOrganizer
               /\ organizer.stripeAccountId = AccountRef
               /\ organizer.stripePayoutsEnabled
        /\ \A h \in Slots :
            RequestPayout_Tx(h)
            => \A q \in payouts' \ payouts : q.organizerId = handlers[h].actor]_vars
\* a payout exists whose organizer has since disconnected the account
C16_PayoutOfDisconnectedOrganizer ==
  /\ \E r \in payouts : r.organizerId = EventOrganizer /\ r.status = "pending"
  /\ organizer.stripeAccountId = Null

\* C17: create-checkout-session on a Payment row whose status is PAID is
\* rejected and leaves the row as it is; it never takes a PAID row back to
\* PENDING.
C17_PaidNotReopened ==
  [][/\ \A actor \in Users, p \in PaymentIds, amount \in AmountInputs :
          CreateCheckoutSession_Begin(actor, p, amount) => payments[p].status # "PAID"
     /\ \A h \in Slots :
          (CreateCheckoutSession_Store(h) /\ payments[handlers[h].paymentId].status = "PAID")
          => payments' = payments]_vars

\* C18: a checkout.session.completed notification processed while the Payment
\* row it refers to is PAID changes neither that row (amountPaid, status,
\* method) nor poolBalance.
C18_PaidContributionUntouched ==
  [][\A h \in Slots :
       (CheckoutCompleted_Tx(h) /\ payments[handlers[h].paymentId].status = "PAID")
       => /\ payments'[handlers[h].paymentId].amountPaid
               = payments[handlers[h].paymentId].amountPaid
          /\ payments'[handlers[h].paymentId].status = "PAID"
          /\ payments'[handlers[h].paymentId].method
               = payments[handlers[h].paymentId].method
          /\ poolBalance' = poolBalance]_vars

\* C19: a checkout.session.completed notification whose session id is not
\* the session reference stored on any Payment row changes no Payment row and
\* not poolBalance.
StoredOnSomePayment(sid) ==
  \E p \in PaymentIds : payments[p].stripeIntentId = SessionRef(sid)
C19_StaleSessionIgnored ==
  [][\A h \in Slots :
       (CheckoutCompleted_Tx(h) /\ ~StoredOnSomePayment(handlers[h].sid))
       => payments' = payments /\ poolBalance' = poolBalance]_vars

\* C20: no two Payment rows of the event belong to the same membership,
\* also while event creation and by-event reads run concurrently.
C20_OneRowPerMember ==
  \A p, q \in DOMAIN payments :
    p # q => payments[p].membershipId # payments[q].membershipId
\* two by-event reads race on the same member: both found no row, one has
\* inserted it, the other is about to insert
C20_UpsertRace ==
  \E g, h \in Slots :
    /\ g # h
    /\ handlers[g].kind = "byEvent" /\ handlers[h].kind = "byEvent"
    /\ handlers[h].pc = "upsertWrite" /\ ~handlers[h].found
    /\ RowExistsFor(handlers[h].current)

\* C21: the upsert of GET by-event leaves every existing Payment row as it
\* is (status, amountPaid, method, references), inserts nothing for a member
\* that has a row, inserts at most one fresh PENDING row otherwise, and once
\* the loop is through every member it read has a row: a repeated call finds
\* them all and changes nothing.
C21_EnsureIdempotent ==
  /\ [](\A h \in Slots :
         (handlers[h].kind = "byEvent" /\ handlers[h].pc = "list")
         => \A m \in handlers[h].members : RowExistsFor(m))
  /\ [][\A h \in Slots :
         ByEvent_UpsertWrite(h)
         => /\ \A p \in DOMAIN payments :
                 p \in DOMAIN payments' /\ payments'[p] = payments[p]
            /\ RowExistsFor(handlers[h].current) => payments' = payments
            /\ \A q \in DOMAIN payments' \ DOMAIN payments :
                 payments'[q] = FreshRow(handlers[h].current, "STRIPE")]_vars
\* a by-event read that began after a manual settlement was recorded has
\* gone through its upserts, and the settled row is still PAID
C21_PaidRowKept ==
  \E h \in Slots :
    /\ handlers[h].kind = "byEvent" /\ handlers[h].pc = "list" /\ overlaps = 0
    /\ \E p \in DOMAIN payments :
         /\ payments[p].status = "PAID" /\ payments[p].amountPaid > 0
         /\ payments[p].membershipId \in handlers[h].members

\* C22: when GET by-event lists the Payment rows, every current member of
\* the circle has a row among them, members added after the event was
\* created included.
C22_ListingHasEveryMember ==
  [][\A h \in Slots :
       ByEvent_List(h) => \A m \in memberships : RowExistsFor(m)]_vars

\* C23: undo-manual is rejected, with the Payment row unchanged, whenever the
\* row's method is not MANUAL or it carries no manual marker (400 for an
\* admin); an undo that is carried out acts on a row that is a manual
\* settlement, takes the recorded manual amount off amountPaid, floored at 0,
\* sets status PENDING and clears the marker.
C23_UndoManualContract ==
  [][/\ \A actor \in Users, p \in PaymentIds :
          /\ UndoManual_Begin(actor, p) => ~NotManuallyPaid(payments[p])
          /\ (NotManuallyPaid(payments[p]) /\ UndoManual_Rejected(actor, p))
               => /\ payments' = payments
                  /\ IsWorkspaceAdmin(actor) => rejected'.status = 400
     /\ \A h \in Slots :
          UndoManual_Write(h)
          => LET p == handlers[h].paymentId
             IN /\ ~NotManuallyPaid(payments[p])
                /\ payments'[p].amountPaid
                     = Max(0, payments[p].amountPaid - manualDelta[p])
                /\ payments'[p].amountPaid >= 0
                /\ payments'[p].status = "PENDING"
                /\ ~StartsWith(payments'[p].stripeIntentId, ManualPrefix)]_vars

\* C24: a webhook request without stripe-signature header, or with a
\* signature that fails verification, is answered 400 and changes no Payment
\* row, no Payout row and not poolBalance (nor anything else).
C24_BadSignatureRejected ==
  [][\A sig \in SignatureHeaders \ {ExpectedSignature}, ev \in WebhookEvents :
       StripeWebhook(sig, ev)
       => /\ rejected' = WebhookResponse(400)
          /\ UNCHANGED <<db, stripeSide, handlers, history>>]_vars
\* a forged notification has just been refused while a payout that it could
\* have moved is pending with its transfer created
C24_ForgedRefused ==
  /\ rejected = WebhookResponse(400)
  /\ \E r \in payouts : r.status = "pending" /\ r.id \in transfers
  /\ AllIdle

\* C25: a checkout.session.completed, transfer.created or transfer.failed
\* notification that carries no correlation key, or whose Payment or Payout
\* row does not exist, is answered 200 and changes nothing.
Unresolvable(ev) ==
  /\ ev.type \in {"checkout.session.completed", "transfer.created", "transfer.failed"}
  /\ \/ ev.id = 0
     \/ /\ ev.type = "checkout.session.completed"
        /\ \E r \in sessions : r.id = ev.id
        /\ SessionById(ev.id).metadata.paymentId \notin DOMAIN payments
     \/ /\ ev.type \in {"transfer.created", "transfer.failed"}
        /\ ev.id \in transfers /\ ~PayoutExists(ev.id)
C25_UnresolvableAcknowledged ==
  [][\A ev \in WebhookEvents :
       (Unresolvable(ev) /\ StripeWebhook(ExpectedSignature, ev))
       => /\ rejected' = WebhookResponse(200)
          /\ UNCHANGED <<db, stripeSide, handlers, history>>]_vars

\* C26: a circle deletion and a workspace deletion by an admin succeed, also
\* when the event has Payout rows, and take the event with all its Payment
\* and Payout rows; no Payment or Payout row is left without its event.
C26_DeletionRemovesChildren ==
  /\ [](~eventCreated => (payments = << >> /\ payouts = {}))
  /\ [][\A actor \in Users :
         (DeleteCircle(actor) \/ DeleteWorkspace(actor))
         => /\ ~eventCreated'
            /\ payments' = << >>
            /\ payouts' = {}]_vars

\* C27: when one successful request-payout of r and one checkout.completed
\* of s on a contribution not yet PAID overlap, starting from balance a, then
\* the ledger invariant holds while they are in flight and once both are
\* through, and the final poolBalance is a + s - r.
\* session 1 (amount a) was created for one payment and settled
FirstSettlement(a) ==
  /\ Cardinality(sessions) = 2 /\ 1 \in settled
  /\ SessionById(1).metadata.chargeAmount = NumToStr(a)
  /\ SessionById(1).metadata.paymentId # SessionById(2).metadata.paymentId
  /\ payments[SessionById(1).metadata.paymentId].status = "PAID"
\* the request-payout g and the checkout.completed h of session 2 are in
\* flight together; all that came before ran one after the other
Racing(g, h, a) ==
  /\ handlers[g].kind = "requestPayout" /\ handlers[h].kind = "checkoutCompleted"
  /\ arrivals = 5 /\ overlaps = 1
  /\ FirstSettlement(a) /\ settled = {1} /\ handlers[h].sid = 2
\* both sessions settled and one payout of r requested with success, one of
\* the five arrivals having come while another was in flight
RaceDone(a, s, r) ==
  /\ arrivals = 5 /\ overlaps = 1 /\ AllIdle
  /\ FirstSettlement(a) /\ settled = {1, 2}
  /\ SessionById(2).metadata.chargeAmount = NumToStr(s)
  /\ payments[SessionById(2).metadata.paymentId].status = "PAID"
  /\ payoutSeq = 1 /\ payouts # {} /\ transfers = {1}
  /\ PayoutById(1).amount = r /\ PayoutById(1).status = "pending"
  /\ PayoutById(1).stripeTransferId = TransferRef(1)
C27_PayoutRacesSettlement ==
  \A a \in Amounts :
    /\ \A g, h \in Slots : Racing(g, h, a) => C1_LedgerInvariant
    /\ \A s \in Amounts, r \in 1..(2 * MaxAmount) :
         RaceDone(a, s, r) => (poolBalance = a + s - r /\ C1_LedgerInvariant)
\* the race is on: the request has committed its reservation while the
\* settlement is between its read and its transaction
C27_Raced ==
  \E g, h \in Slots, a \in Amounts :
    /\ Racing(g, h, a)
    /\ handlers[g].pc = "transfer"
    /\ handlers[g].seenBalance = a
    /\ poolBalance = a - handlers[g].requestedAmount

\* C28: every committed step that creates a pending Payout row takes its
\* amount off poolBalance, every step that makes a Payment row PAID by the
\* processor adds the session's amount to poolBalance, and every step that
\* makes a Payout row failed adds its amount to poolBalance: the ledger row
\* and the balance are written in one step or not at all.
C28_AtomicPairing ==
  [][/\ \A q \in payouts' :
          (q.status = "pending" /\ ~PayoutExists(q.id))
          => poolBalance' = poolBalance - q.amount
     /\ \A p \in PaymentIds :
          (/\ payments'[p] # payments[p]
           /\ payments'[p].status = "PAID" /\ payments'[p].method = "STRIPE")
          => \E r \in sessions :
               /\ payments'[p].stripeIntentId = SessionRef(r.id)
               /\ poolBalance' = poolBalance + ParseFloat(r.metadata.chargeAmount)
     /\ \A r \in payouts : \A q \in payouts' :
          (q.id = r.id /\ r.status # "failed" /\ q.status = "failed")
          => poolBalance' = poolBalance + r.amount]_vars
\* all three pairs have been committed: a settled contribution, a payout
\* that failed and was refunded, and a second payout pending
C28_AllPairsCommitted ==
  /\ AllIdle
  /\ \E p \in PaymentIds : payments[p].status = "PAID" /\ payments[p].method = "STRIPE"
  /\ \E r \in payouts : r.status = "failed" /\ refundCount[r.id] = 1
  /\ \E r \in payouts : r.status = "pending"
  /\ C1_LedgerInvariant

\* C29: when the transaction of handleCheckoutSessionCompleted commits on a
\* Payment row that is not PAID, the row's amountPaid goes up by exactly the
\* amount charged, its status becomes PAID with method STRIPE, poolBalance
\* goes up by the same amount, and no other Payment row and no Payout row
\* changes.
C29_SettlementApplied ==
  [][\A h \in Slots :
       (/\ handlers[h].kind = "checkoutCompleted"
        /\ payments[handlers[h].paymentId].status # "PAID"
        /\ CheckoutCompleted_Tx(h))
       => LET p == handlers[h].paymentId
              settledAmount == handlers[h].amountCharged
          IN /\ payments'[p].amountPaid = payments[p].amountPaid + settledAmount
             /\ payments'[p].status = "PAID" /\ payments'[p].method = "STRIPE"
             /\ poolBalance' = poolBalance + settledAmount
             /\ \A q \in PaymentIds \ {p} : payments'[q] = payments[q]
             /\ payouts' = payouts]_vars

\* C30: the transfer of a payout request is started only when the
\* transaction that created its Payout row and took its amount off
\* poolBalance has committed (the row is there, pending, with the amount
\* transferred), no transfer carrying that Payout's id exists yet, and the
\* transfer created carries exactly that id; every transfer carries the id
\* of a Payout row that was created.
C30_TransferAfterReservation ==
  [][/\ \A h \in Slots :
          RequestPayout_Tx(h)
          => /\ handlers'[h].payoutId \notin transfers
             /\ ~PayoutExists(handlers'[h].payoutId)
             /\ \E r \in payouts' :
                  /\ r.id = handlers'[h].payoutId
                  /\ r.amount = handlers[h].requestedAmount
             /\ poolBalance' = poolBalance - handlers[h].requestedAmount
     /\ \A h \in Slots, ok \in BOOLEAN :
          RequestPayout_Transfer(h, ok)
          => /\ \E r \in payouts :
                  /\ r.id = handlers[h].payoutId
                  /\ r.status = "pending"
                  /\ r.amount = handlers[h].requestedAmount
             /\ handlers[h].payoutId \notin transfers
             /\ IF ok THEN transfers' = transfers \cup {handlers[h].payoutId}
                      ELSE transfers' = transfers
     /\ transfers' # transfers
          => \E h \in Slots : RequestPayout_Transfer(h, TRUE)
     /\ \A i \in transfers' : i \in 1..payoutSeq']_vars
\* a transfer has just been created for a payout whose reservation is
\* committed: the row is pending and the balance read is down by its amount
C30_TransferStarted ==
  \E h \in Slots :
    /\ handlers[h].kind = "requestPayout" /\ handlers[h].pc = "update"
    /\ handlers[h].payoutId \in transfers
    /\ \E r \in payouts :
         /\ r.id = handlers[h].payoutId /\ r.status = "pending"
         /\ r.amount = handlers[h].requestedAmount
    /\ poolBalance = handlers[h].seenBalance - handlers[h].requestedAmount

\* C31: create-checkout-session goes on only for the member owning the
\* Payment row and an amount > 0; a request by another user (403) or with an
\* amount not > 0 (400) is refused and changes nothing.  The write of an
\* accepted request stores the session's reference on the row, the status
\* after it is PENDING, and amountPaid and poolBalance are not changed.
C31_BeginExternalSettlement ==
  [][/\ \A actor \in Users, p \in PaymentIds, amount \in AmountInputs :
          /\ CreateCheckoutSession_Begin(actor, p, amount)
               => (MemberOf(p) = actor /\ amount > 0)
          /\ ((MemberOf(p) # actor \/ amount <= 0)
               /\ CreateCheckoutSession_Rejected(actor, p, amount))
               => /\ rejected'.status = (IF MemberOf(p) # actor THEN 403 ELSE 400)
                  /\ UNCHANGED <<db, stripeSide, handlers, history>>
     /\ \A h \in Slots :
          CreateCheckoutSession_Store(h)
          => LET p == handlers[h].paymentId
             IN /\ payments'[p].stripeIntentId = SessionRef(handlers[h].sid)
                /\ \E r \in sessions :
                     r.id = handlers[h].sid /\ r.metadata.paymentId = p
                /\ payments'[p].status = "PENDING"
                /\ payments'[p].amountPaid = payments[p].amountPaid
                /\ poolBalance' = poolBalance]_vars
\* a request for another member's share has just been refused and the
\* owner's own session is stored on the pending row
C31_RefusedAndStored ==
  /\ rejected = [op |-> "createCheckoutSession", status |-> 403]
  /\ AllIdle
  /\ \E p \in PaymentIds, r \in sessions :
       /\ payments[p].stripeIntentId = SessionRef(r.id)
       /\ payments[p].status = "PENDING" /\ payments[p].amountPaid = 0

\* C32: mark-paid goes on only for an admin of the workspace and an amount
\* > 0; any other request is refused and leaves the Payment row (and all
\* else) unchanged.  The write of an accepted request raises amountPaid by
\* exactly the amount, sets status PAID and method MANUAL, and records the
\* amount itself, not the new total, as the marker that undo reads.
C32_ManualSettlementContract ==
  [][/\ \A actor \in Users, p \in PaymentIds, amount \in AmountInputs :
          /\ MarkPaid_Begin(actor, p, amount)
               => (IsWorkspaceAdmin(actor) /\ amount > 0)
          /\ ((~IsWorkspaceAdmin(actor) \/ amount <= 0)
               /\ MarkPaid_Rejected(actor, p, amount))
               => /\ rejected'.status \in {400, 403}
                  /\ UNCHANGED <<db, stripeSide, handlers, history>>
     /\ \A h \in Slots :
          MarkPaid_Write(h)
          => LET p == handlers[h].paymentId
                 amount == handlers[h].amount
             IN /\ payments'[p].amountPaid = payments[p].amountPaid + amount
                /\ payments'[p].status = "PAID" /\ payments'[p].method = "MANUAL"
                /\ payments'[p].stripeIntentId = ManualIntentId(amount)
                /\ UndoneAmountPaid(payments'[p]) = payments'[p].amountPaid - amount]_vars

\* the Payment rows of member m
RowsOf(f, m) == {p \in DOMAIN f : f[p].membershipId = m}
AmountOf(i, whos, statuses) ==
  IF \E r \in payouts : r.id = i /\ r.organizerId \in whos /\ r.status \in statuses
    THEN PayoutById(i).amount ELSE 0
RECURSIVE SumUpTo(_, _, _)
SumUpTo(n, whos, statuses) ==
  IF n = 0 THEN 0 ELSE AmountOf(n, whos, statuses) + SumUpTo(n - 1, whos, statuses)
\* C34: the organizer listing returns exactly the Payout rows whose
\* organizerId is the caller, with totalPaidOut the sum of the amounts of
\* its paid rows and totalPending the sum of its pending and in_transit
\* rows; the event listing is refused (403) to a user who is not a member of
\* the circle and reports as totalPaidOut the sum over pending, in_transit
\* and paid rows; failed rows count in none of the totals.
C34_PayoutTotals ==
  [][/\ \A actor \in Users :
          /\ ListOrganizerPayouts(actor)
               => /\ rejected'.payouts = {r.id : r \in {q \in payouts : q.organizerId = actor}}
                  /\ rejected'.totalPaidOut = SumUpTo(MaxPayouts, {actor}, {"paid"})
                  /\ rejected'.totalPending
                       = SumUpTo(MaxPayouts, {actor}, {"pending", "in_transit"})
                  /\ rejected'.totalPaidOut + rejected'.totalPending
                       + SumUpTo(MaxPayouts, {actor}, {"failed"})
                       = SumUpTo(MaxPayouts, {actor}, PayoutStatuses)
          /\ ListEventPayouts_Begin(actor) => actor \in memberships
          /\ (actor \notin memberships /\ ListEventPayouts_Rejected(actor))
               => /\ rejected' = [op |-> "listEventPayouts", status |-> 403]
                  /\ UNCHANGED <<db, stripeSide, handlers, history>>
     /\ \A h \in Slots :
          ListEventPayouts_FindMany(h)
          => /\ handlers[h].actor \in memberships
             /\ rejected'.totalPaidOut
                  = SumUpTo(MaxPayouts, Users, {"pending", "in_transit", "paid"})
             /\ rejected'.totalPaidOut + SumUpTo(MaxPayouts, Users, {"failed"})
                  = SumUpTo(MaxPayouts, Users, PayoutStatuses)]_vars
\* the organizer has just listed a failed and a paid payout: the paid one is
\* the total paid out, nothing is pending
C34_FailedNotCounted ==
  /\ rejected.op = "listOrganizerPayouts"
  /\ \E r, q \in payouts :
       /\ r.status = "failed" /\ q.status = "paid"
       /\ rejected.payouts = {r.id, q.id}
       /\ rejected.totalPaidOut = q.amount /\ rejected.totalPending = 0

\* the Payout row i is in flight: pending or in_transit
InFlight(i) == \E r \in payouts : r.id = i /\ r.status \in {"pending", "in_transit"}
\* C35: with handlers running on and transfer notifications delivered,
\* every Payout row that is pending or in_transit eventually is paid or
\* failed (or is taken back by the rollback of its request), so that the
\* check for a payout in progress lets a new request through again.
C35_PayoutLeavesInFlight ==
  \A i \in PayoutIds : InFlight(i) ~> ~InFlight(i)

\* C36: no step of mark-paid, undo-manual or create-checkout-session changes
\* poolBalance or a Payout row; poolBalance changes only in the transaction
\* of checkout.session.completed, in the transaction of request-payout, in
\* its rollback and in the transaction of transfer.failed.
C36_ManualFrame ==
  [][/\ (poolBalance' # poolBalance \/ payouts' # payouts)
          => /\ \A actor \in Users, p \in PaymentIds, amount \in AmountInputs :
                  /\ ~MarkPaid_Begin(actor, p, amount)
                  /\ ~UndoManual_Begin(actor, p)
                  /\ ~CreateCheckoutSession_Begin(actor, p, amount)
             /\ \A h \in Slots :
                  /\ ~MarkPaid_Write(h)
                  /\ ~UndoManual_Write(h)
                  /\ ~CreateCheckoutSession_Store(h)
     /\ poolBalance' # poolBalance
          => \E h \in Slots :
               \/ CheckoutCompleted_Tx(h)
               \/ RequestPayout_Tx(h)
               \/ RequestPayout_Rollback(h)
               \/ TransferFailed_Tx(h)]_vars
\* a manual settlement has been recorded next to a processor settlement and
\* a pending payout: the pool holds what was settled through the processor
\* less the payout
C36_ManualBesidePool ==
  /\ AllIdle
  /\ \E p \in PaymentIds :
       /\ payments[p].status = "PAID" /\ payments[p].method = "MANUAL"
       /\ payments[p].amountPaid > 0
  /\ \E q \in PaymentIds, r \in payouts :
       /\ payments[q].status = "PAID" /\ payments[q].method = "STRIPE"
       /\ r.status = "pending"
       /\ poolBalance = payments[q].amountPaid - r.amount
       /\ poolBalance > 0

\* only two settlements of amounts a and b through the processor have
\* happened, both on Payment row p, each session completed once
TwoProcessorSettlements(p, a, b) ==
  /\ AllIdle /\ arrivals = 4
  /\ settled = {1, 2}
  /\ sessions = {[id |-> 1, metadata |-> [paymentId |-> p, chargeAmount |-> NumToStr(a)]],
                  [id |-> 2, metadata |-> [paymentId |-> p, chargeAmount |-> NumToStr(b)]]}
\* only a settlement of a through the processor and a manual settlement of
\* b have happened, both on Payment row p
ProcessorAndManualSettlement(p, a, b) ==
  /\ AllIdle /\ arrivals = 3
  /\ settled = {1}
  /\ sessions = {[id |-> 1, metadata |-> [paymentId |-> p, chargeAmount |-> NumToStr(a)]]}
  /\ manualDelta[p] = b
\* C37: after two settlements on one Payment row that started with
\* amountPaid 0, run in any order or concurrently (two
\* checkout.session.completed of different sessions with amounts a and b,
\* or one of a and a mark-paid of b), amountPaid is a + b and poolBalance
\* holds exactly what the processor settlements added to amountPaid.
C37_NoLostSettlement ==
  \A p \in PaymentIds, a \in Amounts, b \in Amounts :
    /\ TwoProcessorSettlements(p, a, b)
         => (payments[p].amountPaid = a + b /\ poolBalance = a + b)
    /\ ProcessorAndManualSettlement(p, a, b)
         => (payments[p].amountPaid = a + b /\ poolBalance = a)

RECURSIVE SumCharged(_)
\* the amounts of the sessions in S, as credited at their completion
SumCharged(S) ==
  IF S = {} THEN 0
  ELSE LET sid == CHOOSE x \in S : TRUE
       IN ParseFloat(SessionById(sid).metadata.chargeAmount) + SumCharged(S \ {sid})
\* the Payout rows whose transfer was created at the processor and for which
\* no transfer.failed has been processed
TransferredOut == {r \in payouts : r.id \in transfers /\ refundCount[r.id] = 0}
\* C38: poolBalance plus the amounts of the payouts whose transfer was
\* created and has not been reported failed never exceeds what the
\* checkout.session.completed settlements have credited (here: the one
\* settlement of the initial state, no other is delivered).
C38_NoMoneyCreated ==
  poolBalance + SumAmount(TransferredOut) <= SumCharged(settled)

\* C39: while no manual settlement of a Payment row is outstanding (none
\* was made, or the latest was undone), an undo-manual request for it is
\* never carried out: it is refused (400 for an admin, 403 otherwise) and
\* writes nothing; and the write of an undo that was already in flight when
\* another undo succeeded leaves amountPaid and status as they are.
C39_UndoAtMostOnce ==
  [][\A p \in PaymentIds :
       manualDelta[p] = 0
       => /\ \A actor \in Users :
               /\ ~UndoManual_Begin(actor, p)
               /\ UndoManual_Rejected(actor, p)
                    => /\ payments' = payments
                       /\ rejected'.status = (IF IsWorkspaceAdmin(actor) THEN 400 ELSE 403)
          /\ \A h \in Slots :
               (UndoManual_Write(h) /\ handlers[h].paymentId = p)
               => /\ payments'[p].amountPaid = payments[p].amountPaid
                  /\ payments'[p].status = payments[p].status]_vars
\* a second undo-manual has just been refused on the row that the first
\* undo left behind (PENDING, no marker), its amountPaid back at 0
C39_SecondUndoRefused ==
  /\ AllIdle
  /\ \E p \in PaymentIds :
       /\ rejected = [op |-> "undoManual", status |-> 400, paymentId |-> p]
       /\ payments[p].status = "PENDING" /\ payments[p].method = "STRIPE"
       /\ payments[p].stripeIntentId = Null /\ payments[p].amountPaid = 0
       /\ manualDelta[p] = 0

====
